---- MODULE Spec2Model ----
(***************************************************************************)
(* Model of the concurrent task-execution core of cp2077-voiceswap:        *)
(*   - util/parallel.py : Parallel, the bounded task runner (asyncio       *)
(*     coroutines behind a Semaphore, joined with asyncio.gather);         *)
(*   - lib/uvr.py : UVRProcess / UVRProcessManager, the worker pool built  *)
(*     on a JoinableQueue, a shared Value counter and a polling watch().   *)
(* The two components are checked under their own specifications,          *)
(* SpecParallel and Spec (the pool); SpecCrash is the pool driven through  *)
(* one stage with a single failing worker, under fairness.                 *)
(***************************************************************************)
EXTENDS Integers, Sequences, FiniteSets, TLC

(***************************************************************************)
(* Bounds of the model.                                                    *)
(***************************************************************************)
PoolSize == 1      \* jobs argument of UVRProcessManager(jobs)
MaxItems == 1      \* number of submit() calls explored
MaxFaults == 1     \* number of worker deaths explored
MaxK == 2          \* largest concurrency argument of Parallel
MaxJobs == 3       \* number of Parallel.run() calls explored

(***************************************************************************)
(* Program constants.                                                      *)
(***************************************************************************)
MaxAttempt == 3    \* uvr.py:99  "if attempt < 3"

None == "None"
NoArg == -1                        \* an optional integer argument left out
Tags == {"A", "B"}                 \* model names passed to set_model
Paths == {"p"}                     \* input_path / output_path arguments
MaxWorkers == PoolSize + MaxFaults \* process handles ever created
WorkerIds == 1..MaxWorkers
Files == 1..MaxItems

VARIABLES
    \* ---- lib/uvr.py : UVRProcessManager and its JoinableQueue ----
    queue,             \* JoinableQueue content, FIFO, of 4-tuples
    unfinished,        \* JoinableQueue._unfinished_tasks
    progress_counter,  \* Value(c_int) shared with the workers
    wanted_model,      \* UVRProcessManager._wanted_model
    workers,           \* UVRProcessManager._workers (set of handles)
    configured,        \* _progress_display / _progress_task_id are bound
    task,              \* the bound rich task: total, completed
    watchpc,           \* position of the watch() coroutine
    mpc,               \* position of the thread calling the manager
    error,             \* exception raised by the latest call of the manager
    \* ---- lib/uvr.py : UVRProcess, one entry per process handle ----
    wpc,               \* position of the worker process in run()
    held,              \* tuple returned by queue.get(), not yet task_done
    last_model,        \* UVRProcess._last_model (child side)
    handle_run,        \* UVRProcess._run as seen through the parent handle
    child_run,         \* UVRProcess._run as seen inside the child process
    exitcode,          \* Process.exitcode
    \* ---- bookkeeping of the run, not program state ----
    submitted,         \* file keys accepted by submit()
    processed,         \* file keys whose _separate call returned
    nPut,              \* number of queue.put calls
    nDone,             \* number of queue.task_done calls
    nSpawn,            \* number of process handles created so far
    faults,            \* number of worker deaths injected so far
    \* ---- util/parallel.py : Parallel ----
    concurrency,       \* concurrency argument of __init__
    immediate,         \* Parallel.__immediate
    owns_progress,     \* Parallel.__owns_progress
    owns_task,         \* Parallel.__owns_task
    semaphore,         \* Semaphore._value
    jobs,              \* Parallel.__jobs: state of each collected job
    ptask,             \* the runner's rich task: total, completed, visible
    pstarted,          \* the runner's Progress display is started
    waitpc,            \* position of Parallel.wait()
    errors,            \* failed jobs in the order gather() observes them
    raisedErr,         \* job whose exception wait() propagated
    \* ---- lib/uvr.py : UVRProcess._separate, one entry per handle ----
    sep_calls,         \* outcomes of the calls of separator.separate, in order
    attempt,           \* the attempt parameter of the innermost _separate
    made,              \* number of calls of separator.separate made so far
    load_called,       \* load_model was called for the tuple in hand
    final_process,     \* arguments bound in model_instance.final_process
    written,           \* audio files written, with the tuple and the writer
    \* ---- lib/uvr.py : isolate_vocals ----
    ipc                \* position of isolate_vocals

poolVars == <<queue, unfinished, progress_counter, wanted_model, workers,
              configured, task, watchpc, mpc, error, wpc, held, last_model,
                    handle_run, child_run, exitcode, submitted, processed,
              nPut, nDone, nSpawn, faults>>
parVars == <<concurrency, immediate, owns_progress, owns_task, semaphore,
             jobs, ptask, pstarted, waitpc, errors, raisedErr>>
sepVars == <<sep_calls, attempt, made, load_called, final_process, written>>
isoVars == <<ipc>>
vars == <<poolVars, parVars, sepVars, isoVars>>

(***************************************************************************)
(* Helpers.                                                                *)
(***************************************************************************)
\* Python truth value of the _run attribute: a multiprocessing Value object
\* defines neither __bool__ nor __len__, so it is true whatever it holds;
\* only the plain bool False is false.
PyFalse == "False"
Truthy(x) == x # PyFalse

\* The object created by Value(ctypes.c_bool, False) (uvr.py:79).
ValueObject == "Value(c_bool)"

Alive(w) == wpc[w] \notin {"unborn", "exited"}

FileOf(item) == item[3]
ModelOf(item) == item[4]
\* The file key of a tuple is a relative path, taken as the sequence of
\* its components; the key of an odd file lies in a directory.
FilePath(file) ==
    IF file % 2 = 1
    THEN <<"d", "f" \o ToString(file) \o ".wav">>
    ELSE <<"f" \o ToString(file) \o ".wav">>

\* os.path.dirname, os.path.basename and os.path.join of relative paths.
Dirname(path) == SubSeq(path, 1, Len(path) - 1)
Basename(path) == path[Len(path)]
Join(a, b) == a \o b

\* Stem names handed to final_process, and str.lower on them.
Stems == {"Vocals", "Instrumental"}
Lower(stem_name) ==
    CASE stem_name = "Vocals" -> "vocals"
      [] stem_name = "Instrumental" -> "instrumental"

\* final_process as the model instance has it before _separate binds it.
NoPartial == [output_path |-> <<>>, filename |-> ""]

\* Faulty variant of BindFinalProcess: the file name bound carries the
\* number of the attempt.
BindFinalProcessPerAttempt(output_path, file, att) ==
    [output_path |-> Join(<<output_path>>, Dirname(FilePath(file))),
     filename |-> Basename(FilePath(file)) \o ToString(att)]

\* uvr.py:86-94  _separate binds output directory and file name in
\* final_process, at every attempt.
BindFinalProcess(output_path, file, att) ==
    [output_path |-> Join(<<output_path>>, Dirname(FilePath(file))),
     filename |-> Basename(FilePath(file))]

\* uvr.py:61-68  the path _custom_final_process writes a stem to.
CustomFinalProcess(output_path, filename, stem_name) ==
    Join(output_path, <<filename \o "_" \o Lower(stem_name) \o ".wav">>)

\* No tuple: the worker is not between queue.get() and task_done().
NoItem == <<>>
Holding(w) == held[w] # NoItem

\* Number of handles holding a tuple whose task_done has not been called.
NumHeld == Cardinality({w \in WorkerIds : Holding(w)})

(***************************************************************************)
(* UVRProcessManager.__init__                                              *)
(***************************************************************************)
\* Faulty variant of NeedsLoad: the model is loaded for every tuple.
NeedsLoadAlways(w) == TRUE

\* Faulty variant of Started: the handles are created and none is started.
StartedNone == {}

\* uvr.py:172-173  every handle of the set is started.
Started == 1..PoolSize

PoolInit ==
    /\ queue = <<>>
    /\ unfinished = 0
    /\ progress_counter = 0
    /\ wanted_model = None
    /\ workers = 1..PoolSize
    /\ configured = FALSE
    /\ task = [total |-> 0, completed |-> 0]
    /\ watchpc = "idle"
    /\ mpc = "ready"
    /\ error = None
    /\ wpc = [w \in WorkerIds |-> IF w \in Started THEN "loop" ELSE "unborn"]
    /\ held = [w \in WorkerIds |-> NoItem]
    /\ last_model = [w \in WorkerIds |-> None]
    /\ handle_run = [w \in WorkerIds |-> ValueObject]
    /\ child_run = [w \in WorkerIds |-> ValueObject]
    /\ exitcode = [w \in WorkerIds |-> None]
    /\ submitted = {}
    /\ processed = {}
    /\ nPut = 0
    /\ nDone = 0
    /\ nSpawn = PoolSize
    /\ faults = 0

workerVars == <<wpc, held, last_model,  child_run, exitcode>>
ghostVars == <<submitted, processed, nPut, nDone, nSpawn, faults>>
sinkVars == <<configured, task>>

\* The thread that calls the manager is "ready" (running the caller's code),
\* blocked in "wait" or "join", and once terminate() has been called it is
\* in "teardown": terminate() and join() end the use of the pool
\* (uvr.py:393-394), nothing is submitted or watched afterwards.
\* A call is made while watch() is not inside an iteration: watch() and its
\* caller share one event loop.
CallerFree == mpc = "ready" /\ watchpc \in {"idle", "sleep", "returned"}

\* configure_progress is called between two watch() calls, never while one
\* is running (uvr.py:325, 361, 376).
StageFree == mpc = "ready" /\ watchpc \in {"idle", "returned"}

\* terminate() and join() are called with no watch() running.
TeardownFree == mpc \in {"ready", "teardown"} /\ watchpc \in {"idle", "returned"}

(***************************************************************************)
(* UVRProcessManager.set_model                                             *)
(***************************************************************************)
SetModel(model) ==
    /\ CallerFree
    /\ wanted_model' = model
    /\ error' = None
    /\ UNCHANGED <<parVars, sepVars, isoVars>>
    /\ UNCHANGED <<queue, unfinished, progress_counter, workers, sinkVars,
                   watchpc, mpc, handle_run, workerVars, ghostVars>>

(***************************************************************************)
(* UVRProcessManager.submit                                                *)
(***************************************************************************)
\* Faulty variant of ModelMissing: submit() does not look at the tag.
ModelMissingIgnored == FALSE

\* uvr.py:177  "if self._wanted_model is None"
ModelMissing == wanted_model = None

SubmitTuple(input_path, output_path, file) ==
    <<input_path, output_path, file, wanted_model>>

Submit(input_path, output_path) ==
    /\ CallerFree
    /\ Cardinality(submitted) < MaxItems
    /\ LET file == Cardinality(submitted) + 1 IN
       IF ModelMissing
       THEN /\ error' = "ValueError"
            /\ UNCHANGED <<queue, unfinished, submitted, nPut>>
       ELSE /\ queue' = Append(queue, SubmitTuple(input_path, output_path, file))
            /\ unfinished' = unfinished + 1
            /\ submitted' = submitted \cup {file}
            /\ nPut' = nPut + 1
            /\ error' = None
    /\ UNCHANGED <<parVars, sepVars, isoVars>>
    /\ UNCHANGED <<progress_counter, wanted_model, workers, sinkVars, watchpc,
                   mpc, handle_run, workerVars, processed, nDone, nSpawn,
                   faults>>

\* Faulty variant of ConfigureProgress: the shared counter is left as it is.
ConfigureProgressKeepCounter(total) ==
    /\ StageFree
    /\ configured' = TRUE
    /\ task' = [completed |-> 0,
                total |-> IF total # NoArg THEN total ELSE task.total]
    /\ error' = None
    /\ UNCHANGED <<parVars, sepVars, isoVars>>
    /\ UNCHANGED <<queue, unfinished, progress_counter, wanted_model, workers,
                   watchpc, mpc, handle_run, workerVars, ghostVars>>

(***************************************************************************)
(* UVRProcessManager.configure_progress                                    *)
(***************************************************************************)
ConfigureProgress(total) ==
    /\ StageFree
    /\ configured' = TRUE
    /\ progress_counter' = 0
    /\ task' = [completed |-> 0,
                total |-> IF total # NoArg THEN total ELSE task.total]
    /\ error' = None
    /\ UNCHANGED <<parVars, sepVars, isoVars>>
    /\ UNCHANGED <<queue, unfinished, wanted_model, workers, watchpc, mpc,
                   handle_run, workerVars, ghostVars>>

(***************************************************************************)
(* UVRProcessManager.wait: JoinableQueue.join() blocks the calling thread  *)
(* until the unfinished counter is zero.                                   *)
(***************************************************************************)
WaitCall ==
    /\ CallerFree
    /\ mpc' = "wait"
    /\ error' = None
    /\ UNCHANGED <<parVars, sepVars, isoVars>>
    /\ UNCHANGED <<queue, unfinished, progress_counter, wanted_model, workers,
                   sinkVars, watchpc, handle_run, workerVars, ghostVars>>

WaitReturn ==
    /\ mpc = "wait"
    /\ unfinished = 0
    /\ mpc' = "ready"
    /\ UNCHANGED <<parVars, sepVars, isoVars>>
    /\ UNCHANGED <<queue, unfinished, progress_counter, wanted_model, workers,
                   sinkVars, watchpc, error, handle_run, workerVars, ghostVars>>
(***************************************************************************)
(* UVRProcess.run, one action per step of the loop (uvr.py:133-154).       *)
(***************************************************************************)
mgrVars == <<wanted_model, workers, sinkVars, watchpc, mpc, error, handle_run>>

\* The memory of a process that has exited is gone: what is left of the
\* worker is its exit code and the tuples it never marked done.
Forget(f, ws, val) == [w \in WorkerIds |-> IF w \in ws THEN val ELSE f[w]]

\* uvr.py:133  "while self._run:" as the child process evaluates it.
KeepRunning(w) == Truthy(child_run[w])

\* uvr.py:133  the loop test: the worker goes on to queue.get, or leaves
\* run() and the process exits with code 0.
LoopCheck(w) ==
    /\ wpc[w] = "loop"
    /\ IF KeepRunning(w)
       THEN /\ wpc' = [wpc EXCEPT ![w] = "get"]
            /\ UNCHANGED <<exitcode, last_model>>
       ELSE /\ wpc' = [wpc EXCEPT ![w] = "exited"]
            /\ exitcode' = [exitcode EXCEPT ![w] = "0"]
            /\ last_model' = Forget(last_model, {w}, None)
    /\ UNCHANGED <<parVars, sepVars, isoVars>>
    /\ UNCHANGED <<queue, unfinished, progress_counter, mgrVars, held,
                   child_run, ghostVars>>

\* uvr.py:135-137  queue.get(timeout=0.1) returns the head of the queue.
Get(w) ==
    /\ wpc[w] = "get"
    /\ queue # <<>>
    /\ held' = [held EXCEPT ![w] = Head(queue)]
    /\ queue' = Tail(queue)
    /\ wpc' = [wpc EXCEPT ![w] = "process"]
    /\ UNCHANGED <<parVars, sepVars, isoVars>>
    /\ UNCHANGED <<unfinished, progress_counter, mgrVars, last_model,
                   child_run, exitcode, ghostVars>>

\* uvr.py:138-139  the get timed out on an empty queue: continue.
GetTimeout(w) ==
    /\ wpc[w] = "get"
    /\ queue = <<>>
    /\ wpc' = [wpc EXCEPT ![w] = "loop"]
    /\ UNCHANGED <<parVars, sepVars, isoVars>>
    /\ UNCHANGED <<queue, unfinished, progress_counter, mgrVars, held,
                   last_model, child_run, exitcode, ghostVars>>

\* Faulty variant of RaiseTarget: no error enters the handler.
RaiseTargetSkipsHandler(kind) == "finally_raise"

\* Where control goes when a statement of the try block raises: an
\* Exception enters the handler of uvr.py:150, any other BaseException
\* (KeyboardInterrupt, SystemExit) goes straight to the finally clause.
RaiseTarget(kind) == IF kind = "Exception" THEN "except" ELSE "finally_raise"

\* Faulty variant of MayRetry: one retry more.
MayRetryOnceMore(att) == att <= MaxAttempt

\* uvr.py:99  "if attempt < 3": the call is made again.
MayRetry(att) == att < MaxAttempt

\* uvr.py:85-101  _separate(input_path, output_path, file, attempt): calls
\* is the outcome of each successive call of separator.separate ("ok",
\* "ParameterError", "Exception" or "BaseException").  The result is how the
\* call ends and the attempt number it ended at.
RECURSIVE SeparateCall(_, _)
SeparateCall(calls, att) ==
    IF Head(calls) = "ok"
    THEN [result |-> "ok", attempt |-> att]
    ELSE IF Head(calls) = "ParameterError"
         THEN IF MayRetry(att)
              THEN SeparateCall(Tail(calls), att + 1)
              ELSE [result |-> "Exception", attempt |-> att]
         ELSE [result |-> Head(calls), attempt |-> att]

\* uvr.py:142  the model is loaded only when the tag differs.
NeedsLoad(w) == ModelOf(held[w]) # last_model[w]

\* uvr.py:142-146  the body of the try block up to the counter: load the
\* model when needed, then _separate.  load is the outcome of load_model
\* ("ok", "Exception" or "BaseException"), calls the outcomes of the calls
\* of separator.separate.  All of it is local to the worker process.
Process(w, load, calls) ==
    /\ wpc[w] = "process"
    /\ IF NeedsLoad(w) /\ load # "ok"
       THEN /\ faults < MaxFaults
            /\ faults' = faults + 1
            /\ wpc' = [wpc EXCEPT ![w] = RaiseTarget(load)]
            /\ UNCHANGED <<last_model, processed>>
       ELSE LET r == SeparateCall(calls, 0) IN
            /\ last_model' = [last_model EXCEPT ![w] = ModelOf(held[w])]
            /\ IF r.result = "ok"
               THEN /\ processed' = processed \cup {FileOf(held[w])}
                    /\ wpc' = [wpc EXCEPT ![w] = "count"]
                    /\ UNCHANGED faults
               ELSE /\ faults < MaxFaults
                    /\ faults' = faults + 1
                    /\ wpc' = [wpc EXCEPT ![w] = RaiseTarget(r.result)]
                    /\ UNCHANGED processed
    /\ UNCHANGED <<parVars, sepVars, isoVars>>
    /\ UNCHANGED <<queue, unfinished, progress_counter, mgrVars, held,
                   child_run, exitcode, submitted, nPut, nDone, nSpawn>>

\* Faulty variant of Count: the worker that has counted its tuple puts it back
\* on the queue as well.
CountAndRequeue(w) ==
    /\ wpc[w] = "count"
    /\ progress_counter' = progress_counter + 1
    /\ wpc' = [wpc EXCEPT ![w] = "finally"]
    /\ queue' = Append(queue, held[w])
    /\ unfinished' = unfinished + 1
    /\ nPut' = nPut + 1
    /\ UNCHANGED <<parVars, sepVars, isoVars>>
    /\ UNCHANGED <<mgrVars, held, last_model, child_run, exitcode, submitted,
                   processed, nDone, nSpawn, faults>>

\* uvr.py:148-149  increment the shared counter under its lock.
Count(w) ==
    /\ wpc[w] = "count"
    /\ progress_counter' = progress_counter + 1
    /\ wpc' = [wpc EXCEPT ![w] = "finally"]
    /\ UNCHANGED <<parVars, sepVars, isoVars>>
    /\ UNCHANGED <<queue, unfinished, mgrVars, held, last_model,
                   child_run, exitcode, ghostVars>>

\* Faulty variant of RequeueTuple: the tuple is rebuilt with the tag that is
\* wanted now.
RequeueTupleWanted(w) == <<held[w][1], held[w][2], held[w][3], wanted_model>>

\* uvr.py:151  the tuple that is put back: the one that was dequeued.
RequeueTuple(w) == held[w]

\* Faulty variant of Requeue: the handler re-raises without putting the tuple back.
RequeueDropped(w) ==
    /\ wpc[w] = "except"
    /\ wpc' = [wpc EXCEPT ![w] = "finally_raise"]
    /\ UNCHANGED <<parVars, sepVars, isoVars>>
    /\ UNCHANGED <<queue, unfinished, progress_counter, mgrVars, held,
                   last_model, child_run, exitcode, ghostVars>>

\* uvr.py:150-152  put the tuple back, then re-raise.
Requeue(w) ==
    /\ wpc[w] = "except"
    /\ queue' = Append(queue, RequeueTuple(w))
    /\ unfinished' = unfinished + 1
    /\ nPut' = nPut + 1
    /\ wpc' = [wpc EXCEPT ![w] = "finally_raise"]
    /\ UNCHANGED <<parVars, sepVars, isoVars>>
    /\ UNCHANGED <<progress_counter, mgrVars, held, last_model,
                   child_run, exitcode, submitted, processed, nDone, nSpawn,
                   faults>>

\* Faulty variant of TaskDone: task_done() sits after the try statement instead of
\* in its finally clause, so a worker that is raising never calls it.
TaskDoneNotFinally(w) ==
    /\ wpc[w] \in {"finally", "finally_raise"}
    /\ unfinished' = IF wpc[w] = "finally" THEN unfinished - 1 ELSE unfinished
    /\ nDone' = IF wpc[w] = "finally" THEN nDone + 1 ELSE nDone
    /\ held' = [held EXCEPT ![w] = NoItem]
    /\ IF wpc[w] = "finally"
       THEN /\ wpc' = [wpc EXCEPT ![w] = "loop"]
            /\ UNCHANGED <<exitcode, last_model>>
       ELSE /\ wpc' = [wpc EXCEPT ![w] = "exited"]
            /\ exitcode' = [exitcode EXCEPT ![w] = "1"]
            /\ last_model' = Forget(last_model, {w}, None)
    /\ UNCHANGED <<parVars, sepVars, isoVars>>
    /\ UNCHANGED <<queue, progress_counter, mgrVars, child_run, submitted,
                   processed, nPut, nSpawn, faults>>

\* uvr.py:153-154  task_done() in the finally clause; afterwards the loop
\* goes on, or the pending exception leaves run() and the process exits
\* with code 1.
TaskDone(w) ==
    /\ wpc[w] \in {"finally", "finally_raise"}
    /\ unfinished' = unfinished - 1
    /\ nDone' = nDone + 1
    /\ held' = [held EXCEPT ![w] = NoItem]
    /\ IF wpc[w] = "finally"
       THEN /\ wpc' = [wpc EXCEPT ![w] = "loop"]
            /\ UNCHANGED <<exitcode, last_model>>
       ELSE /\ wpc' = [wpc EXCEPT ![w] = "exited"]
            /\ exitcode' = [exitcode EXCEPT ![w] = "1"]
            /\ last_model' = Forget(last_model, {w}, None)
    /\ UNCHANGED <<parVars, sepVars, isoVars>>
    /\ UNCHANGED <<queue, progress_counter, mgrVars, child_run, submitted,
                   processed, nPut, nSpawn, faults>>

\* The worker process dies inside load_model or separate without raising
\* (out of memory, a fault in a native library): it stops there, with the
\* tuple it holds.
Crash(w) ==
    /\ wpc[w] = "process"
    /\ faults < MaxFaults
    /\ faults' = faults + 1
    /\ wpc' = [wpc EXCEPT ![w] = "exited"]
    /\ exitcode' = [exitcode EXCEPT ![w] = "-9"]
    /\ last_model' = Forget(last_model, {w}, None)
    /\ UNCHANGED <<parVars, sepVars, isoVars>>
    /\ UNCHANGED <<queue, unfinished, progress_counter, mgrVars, held,
                   child_run, submitted, processed, nPut, nDone, nSpawn>>

(***************************************************************************)
(* UVRProcessManager.watch (uvr.py:234-263).  One iteration is three       *)
(* steps, because the worker processes run in parallel with it: the drain  *)
(* under the counter's lock, the scan of the handles with the loop test,   *)
(* and the sleep.                                                          *)
(***************************************************************************)
\* Faulty variant of ZeroTotal: watch() has no early return.
ZeroTotalIgnored == FALSE

\* uvr.py:237  "task.total is not None and task.total == 0"
ZeroTotal == task.total = 0

\* Faulty variant of NotConfigured: watch() goes on without a bound task.
NotConfiguredIgnored == FALSE

\* uvr.py:216  "self._progress_display is None or self._progress_task_id is
\* None"
NotConfigured == ~configured

\* uvr.py:236-238 (and _get_progress_task, uvr.py:214-217)
WatchStart ==
    /\ mpc = "ready"
    /\ watchpc \in {"idle", "returned"}
    /\ IF NotConfigured
       THEN /\ error' = "RuntimeError"
            /\ UNCHANGED watchpc
       ELSE /\ watchpc' = IF ZeroTotal THEN "returned" ELSE "drain"
            /\ error' = None
    /\ UNCHANGED <<parVars, sepVars, isoVars>>
    /\ UNCHANGED <<queue, unfinished, progress_counter, wanted_model, workers,
                   sinkVars, mpc, handle_run, workerVars, ghostVars>>

\* Faulty variant of WatchDrain: the counter is forwarded and not reset.
WatchDrainNoReset ==
    /\ mpc = "ready"
    /\ watchpc = "drain"
    /\ task' = [task EXCEPT !.completed = task.completed + progress_counter]
    /\ watchpc' = "scan"
    /\ UNCHANGED <<parVars, sepVars, isoVars>>
    /\ UNCHANGED <<queue, unfinished, progress_counter, wanted_model, workers,
                   configured, mpc, error, handle_run, workerVars, ghostVars>>

\* uvr.py:241-249
WatchDrain ==
    /\ mpc = "ready"
    /\ watchpc = "drain"
    /\ LET increment == progress_counter IN
       /\ progress_counter' = 0
       /\ task' = [task EXCEPT !.completed = task.completed + increment]
    /\ watchpc' = "scan"
    /\ UNCHANGED <<parVars, sepVars, isoVars>>
    /\ UNCHANGED <<queue, unfinished, wanted_model, workers, configured, mpc,
                   error, handle_run, workerVars, ghostVars>>

\* Faulty variant of DeadWorkers: every handle that has ever exited is seen
\* dead again, whether or not it is still in the set.
DeadWorkersAll == {w \in WorkerIds : exitcode[w] # None}

\* Handles of the set whose process has exited (uvr.py:252).
DeadWorkers == {w \in workers : exitcode[w] # None}

\* Faulty variant of Respawned: dead handles are removed and nothing is started.
RespawnedNone == {}

\* uvr.py:251-257  every dead handle is removed and one new process is
\* started in its place.
Respawned == (nSpawn + 1)..(nSpawn + Cardinality(DeadWorkers))

\* Faulty variant of WatchFinished: the loop ends one completion short.
WatchFinishedEarly == task.completed + 1 >= task.total

\* Faulty variant of WatchFinished: the loop ends only past the total.
WatchFinishedStrict == task.completed > task.total

\* uvr.py:260  the loop ends when the task has reached its total.
WatchFinished == task.completed >= task.total

\* uvr.py:251-261
WatchScan ==
    /\ mpc = "ready"
    /\ watchpc = "scan"
    /\ workers' = (workers \ DeadWorkers) \cup Respawned
    /\ nSpawn' = nSpawn + Cardinality(DeadWorkers)
    /\ wpc' = [w \in WorkerIds |-> IF w \in Respawned THEN "loop" ELSE wpc[w]]
    /\ watchpc' = IF WatchFinished THEN "returned" ELSE "sleep"
    /\ UNCHANGED <<parVars, sepVars, isoVars>>
    /\ UNCHANGED <<queue, unfinished, progress_counter, wanted_model,
                   sinkVars, mpc, error, handle_run, held, last_model,
                    child_run, exitcode, submitted, processed, nPut,
                   nDone, faults>>

\* uvr.py:263
WatchSleep ==
    /\ mpc = "ready"
    /\ watchpc = "sleep"
    /\ watchpc' = "drain"
    /\ UNCHANGED <<parVars, sepVars, isoVars>>
    /\ UNCHANGED <<queue, unfinished, progress_counter, wanted_model, workers,
                   sinkVars, mpc, error, handle_run, workerVars, ghostVars>>

(***************************************************************************)
(* UVRProcessManager.terminate with UVRProcess.terminate (uvr.py:103-107,  *)
(* 265-268): a handle whose _run is true has _run rebound to False in the  *)
(* parent; a handle whose _run is already False gets Process.terminate(),  *)
(* which kills a live process with SIGTERM.                                *)
(***************************************************************************)
Signalled == {w \in workers : ~Truthy(handle_run[w]) /\ Alive(w)}

Terminate ==
    /\ TeardownFree
    /\ mpc' = "teardown"
    /\ error' = None
    /\ faults + Cardinality(Signalled) <= MaxFaults
    /\ handle_run' = [w \in WorkerIds |->
                        IF w \in workers /\ Truthy(handle_run[w])
                        THEN PyFalse ELSE handle_run[w]]
    /\ wpc' = [w \in WorkerIds |-> IF w \in Signalled THEN "exited" ELSE wpc[w]]
    /\ exitcode' = [w \in WorkerIds |->
                        IF w \in Signalled THEN "-15" ELSE exitcode[w]]
    /\ faults' = faults + Cardinality(Signalled)
    /\ last_model' = Forget(last_model, Signalled, None)
    /\ UNCHANGED <<parVars, sepVars, isoVars>>
    /\ UNCHANGED <<queue, unfinished, progress_counter, wanted_model, workers,
                   sinkVars, watchpc, held, child_run, submitted, processed,
                   nPut, nDone, nSpawn>>

(***************************************************************************)
(* UVRProcessManager.join (uvr.py:270-273): Process.join() on every handle *)
(* blocks the calling thread until all of them have exited.                *)
(***************************************************************************)
JoinCall ==
    /\ mpc = "teardown"
    /\ watchpc \in {"idle", "returned"}
    /\ mpc' = "join"
    /\ error' = None
    /\ UNCHANGED <<parVars, sepVars, isoVars>>
    /\ UNCHANGED <<queue, unfinished, progress_counter, wanted_model, workers,
                   sinkVars, watchpc, handle_run, workerVars, ghostVars>>

JoinReturn ==
    /\ mpc = "join"
    /\ \A w \in workers : ~Alive(w)
    /\ mpc' = "joined"
    /\ UNCHANGED <<parVars, sepVars, isoVars>>
    /\ UNCHANGED <<queue, unfinished, progress_counter, wanted_model, workers,
                   sinkVars, watchpc, error, handle_run, workerVars, ghostVars>>

(***************************************************************************)
(* The pool: the manager's caller, the watch loop and the workers.         *)
(***************************************************************************)
LoadOutcomes == {"ok", "Exception", "BaseException"}
\* Outcomes of the successive calls of separator.separate for one tuple:
\* k transient failures followed by a last outcome, or transient failures
\* for as long as _separate goes on calling.
RECURSIVE Transient(_)
Transient(k) == IF k = 0 THEN <<>> ELSE <<"ParameterError">> \o Transient(k - 1)
CallSeqs == {Transient(k) \o <<last>> :
                k \in 0..(MaxAttempt + 1),
                last \in {"ok", "Exception", "BaseException"}}
            \cup {Transient(MaxAttempt + 2)}
TotalArgs == {NoArg} \cup (0..MaxItems)

ManagerStep ==
    \/ \E model \in Tags : SetModel(model)
    \/ \E input_path \in Paths, output_path \in Paths :
          Submit(input_path, output_path)
    \/ \E total \in TotalArgs : ConfigureProgress(total)
    \/ WaitCall
    \/ WaitReturn
    \/ Terminate
    \/ JoinCall
    \/ JoinReturn

WatchStep ==
    \/ WatchStart
    \/ WatchDrain
    \/ WatchScan
    \/ WatchSleep

WorkerStep(w) ==
    \/ LoopCheck(w)
    \/ Get(w)
    \/ GetTimeout(w)
    \/ \E load \in LoadOutcomes :
          \E calls \in (IF load = "ok" THEN CallSeqs ELSE {<<"ok">>}) :
             Process(w, load, calls)
    \/ Count(w)
    \/ Requeue(w)
    \/ TaskDone(w)
    \/ Crash(w)

PoolNext == ManagerStep \/ WatchStep \/ \E w \in WorkerIds : WorkerStep(w)
(***************************************************************************)
(* util/parallel.py : Parallel.  A job is "coro" (a coroutine object not   *)
(* yet scheduled), "gate" (a task scheduled on the event loop, not yet     *)
(* past the semaphore), "running" (inside func), "ok" or "failed".         *)
(***************************************************************************)
JobIds == 1..Len(jobs)
Settled(j) == jobs[j] \in {"ok", "failed"}

\* parallel.py:22-53  __init__(concurrency, immediate, progress, task_id)
ParInit ==
    /\ concurrency \in 1..MaxK
    /\ immediate \in BOOLEAN
    /\ owns_progress \in BOOLEAN
    /\ owns_task \in BOOLEAN
    /\ semaphore = concurrency
    /\ jobs = <<>>
    /\ ptask = [total |-> 0, completed |-> 0, visible |-> TRUE]
    /\ pstarted = TRUE
    /\ waitpc = "none"
    /\ errors = <<>>
    /\ raisedErr = 0

\* Faulty variant of Run: the job is scheduled at once in either mode.
RunAlwaysScheduled ==
    /\ waitpc = "none"
    /\ Len(jobs) < MaxJobs
    /\ jobs' = Append(jobs, "gate")
    /\ UNCHANGED <<poolVars, sepVars, isoVars>>
    /\ UNCHANGED <<concurrency, immediate, owns_progress, owns_task, semaphore,
                   ptask, pstarted, waitpc, errors, raisedErr>>

\* parallel.py:64-69  run(func): the job is collected, and scheduled at once
\* in immediate mode.
Run ==
    /\ waitpc = "none"
    /\ Len(jobs) < MaxJobs
    /\ jobs' = Append(jobs, IF immediate THEN "gate" ELSE "coro")
    /\ UNCHANGED <<poolVars, sepVars, isoVars>>
    /\ UNCHANGED <<concurrency, immediate, owns_progress, owns_task, semaphore,
                   ptask, pstarted, waitpc, errors, raisedErr>>

\* Faulty variant of GateOpen: the gate lets one job too many through.
GateOpenOffByOne == semaphore >= 0

\* parallel.py:57  Semaphore.acquire() goes through while a slot is free.
GateOpen == semaphore > 0

\* parallel.py:57-59  "async with self.__semaphore" entered, func called.
Acquire(j) ==
    /\ jobs[j] = "gate"
    /\ GateOpen
    /\ semaphore' = semaphore - 1
    /\ jobs' = [jobs EXCEPT ![j] = "running"]
    /\ UNCHANGED <<poolVars, sepVars, isoVars>>
    /\ UNCHANGED <<concurrency, immediate, owns_progress, owns_task, ptask,
                   pstarted, waitpc, errors, raisedErr>>

\* Faulty variant of Finish: a job that raises is put back at the gate to be
\* run again, and its exception is dropped.
FinishResubmits(j, raises) ==
    /\ jobs[j] = "running"
    /\ ptask' = [ptask EXCEPT !.completed = ptask.completed + 1]
    /\ semaphore' = semaphore + 1
    /\ jobs' = [jobs EXCEPT ![j] = IF raises THEN "gate" ELSE "ok"]
    /\ UNCHANGED <<poolVars, sepVars, isoVars>>
    /\ UNCHANGED <<concurrency, immediate, owns_progress, owns_task, pstarted,
                   waitpc, errors, raisedErr>>

\* Faulty variant of Finish: a job that raises keeps its slot.
FinishLeakOnRaise(j, raises) ==
    /\ jobs[j] = "running"
    /\ ptask' = [ptask EXCEPT !.completed = ptask.completed + 1]
    /\ semaphore' = IF raises THEN semaphore ELSE semaphore + 1
    /\ jobs' = [jobs EXCEPT ![j] = IF raises THEN "failed" ELSE "ok"]
    /\ errors' = IF raises /\ waitpc = "gathering"
                 THEN Append(errors, j) ELSE errors
    /\ UNCHANGED <<poolVars, sepVars, isoVars>>
    /\ UNCHANGED <<concurrency, immediate, owns_progress, owns_task, pstarted,
                   waitpc, raisedErr>>

\* parallel.py:59-62  func returns or raises; the finally clause advances
\* the task by one and the semaphore is released.  gather() (parallel.py:96)
\* notes the failure of a job it is awaiting.
Finish(j, raises) ==
    /\ jobs[j] = "running"
    /\ ptask' = [ptask EXCEPT !.completed = ptask.completed + 1]
    /\ semaphore' = semaphore + 1
    /\ jobs' = [jobs EXCEPT ![j] = IF raises THEN "failed" ELSE "ok"]
    /\ errors' = IF raises /\ waitpc = "gathering"
                 THEN Append(errors, j) ELSE errors
    /\ UNCHANGED <<poolVars, sepVars, isoVars>>
    /\ UNCHANGED <<concurrency, immediate, owns_progress, owns_task, pstarted,
                   waitpc, raisedErr>>

\* parallel.py:98-102 (and 90-93)  the runner's own task line is hidden and
\* its own display stopped.
Cleanup(t) ==
    /\ ptask' = [t EXCEPT !.visible = IF owns_task THEN FALSE ELSE t.visible]
    /\ pstarted' = IF owns_progress THEN FALSE ELSE pstarted

\* Jobs that had failed before gather() was called, in argument order.
FailedBefore == SelectSeq([j \in JobIds |-> j], LAMBDA j : jobs[j] = "failed")

\* Faulty variant of NoJobs: wait() goes on to gather() with no job.
NoJobsNever(total) == FALSE

\* parallel.py:89  "if total == 0"
NoJobs(total) == total = 0

\* parallel.py:79-96  wait() up to the await: the task is reset to the
\* number of jobs; with no job wait() returns, otherwise gather() schedules
\* every job that is still a coroutine.
WaitStart ==
    /\ waitpc = "none"
    /\ LET total == Len(jobs)
           t == [total |-> total, completed |-> 0, visible |-> total > 0]
       IN IF NoJobs(total)
          THEN /\ Cleanup(t)
               /\ waitpc' = "returned"
               /\ UNCHANGED <<jobs, errors>>
          ELSE /\ ptask' = t
               /\ jobs' = [j \in JobIds |->
                             IF jobs[j] = "coro" THEN "gate" ELSE jobs[j]]
               /\ errors' = FailedBefore
               /\ waitpc' = "gathering"
               /\ UNCHANGED pstarted
    /\ UNCHANGED <<poolVars, sepVars, isoVars>>
    /\ UNCHANGED <<concurrency, immediate, owns_progress, owns_task, semaphore,
                   raisedErr>>

\* Faulty variant of GatherDone: the join ends once no collected job has failed,
\* whether or not all of them have run.
GatherDoneNoFailure == \A j \in JobIds : jobs[j] # "failed"

\* parallel.py:96  gather() has a result once every job has returned.
GatherDone == \A j \in JobIds : jobs[j] = "ok"

\* parallel.py:96  gather() (return_exceptions left False) raises as soon
\* as one of the jobs has raised.
GatherFailed == errors # <<>>

\* parallel.py:96-102  the await returns and wait() finishes.
WaitReturns ==
    /\ waitpc = "gathering"
    /\ GatherDone
    /\ Cleanup(ptask)
    /\ waitpc' = "returned"
    /\ UNCHANGED <<poolVars, sepVars, isoVars>>
    /\ UNCHANGED <<concurrency, immediate, owns_progress, owns_task, semaphore,
                   jobs, errors, raisedErr>>

\* Faulty variant of WaitRaises: the owned task and display are cleaned up
\* before the failure leaves wait(), as a finally clause would do.
WaitRaisesWithCleanup ==
    /\ waitpc = "gathering"
    /\ GatherFailed
    /\ raisedErr' = Head(errors)
    /\ Cleanup(ptask)
    /\ waitpc' = "raised"
    /\ UNCHANGED <<poolVars, sepVars, isoVars>>
    /\ UNCHANGED <<concurrency, immediate, owns_progress, owns_task, semaphore,
                   jobs, errors>>

\* parallel.py:96  the await raises the first failure out of wait().
WaitRaises ==
    /\ waitpc = "gathering"
    /\ GatherFailed
    /\ raisedErr' = Head(errors)
    /\ waitpc' = "raised"
    /\ UNCHANGED <<poolVars, sepVars, isoVars>>
    /\ UNCHANGED <<concurrency, immediate, owns_progress, owns_task, semaphore,
                   jobs, ptask, pstarted, errors>>

ParNext ==
    \/ Run
    \/ \E j \in JobIds : Acquire(j)
    \/ \E j \in JobIds, raises \in BOOLEAN : Finish(j, raises)
    \/ WaitStart
    \/ WaitReturns
    \/ WaitRaises

(***************************************************************************)
(* Specifications.  Spec is the worker pool, with a Parallel runner        *)
(* constructed and left alone; SpecParallel is the task runner, with the   *)
(* pool constructed and left alone.                                        *)
(***************************************************************************)
ParIdle ==
    /\ ParInit
    /\ concurrency = 1
    /\ ~immediate
    /\ owns_progress
    /\ owns_task

\* No _separate call has been made.
SepIdle ==
    /\ sep_calls = [w \in WorkerIds |-> <<>>]
    /\ attempt = [w \in WorkerIds |-> 0]
    /\ made = [w \in WorkerIds |-> 0]
    /\ load_called = [w \in WorkerIds |-> FALSE]
    /\ final_process = [w \in WorkerIds |-> NoPartial]
    /\ written = {}

\* isolate_vocals has not been called.
IsoIdle == ipc = "none"

Init == PoolInit /\ ParIdle /\ SepIdle /\ IsoIdle

Next == PoolNext

Spec == Init /\ [][Next]_vars

InitParallel == PoolInit /\ ParInit /\ SepIdle /\ IsoIdle

NextParallel == ParNext

SpecParallel == InitParallel /\ [][NextParallel]_vars
(***************************************************************************)
(* SpecCrash: one stage of isolate_vocals (uvr.py:375-391) on the pool:    *)
(* set_model, configure_progress with the number of items as total, the    *)
(* submits, watch() until it returns, then wait().  Workers fail only by   *)
(* raising an Exception from load_model or separate, which the handler of  *)
(* uvr.py:150 requeues.  The worker processes are scheduled by the         *)
(* operating system and the caller and watch() by the event loop, each     *)
(* fairly.                                                                 *)
(***************************************************************************)
StageCaller ==
    \/ wanted_model = None /\ \E model \in Tags : SetModel(model)
    \/ wanted_model # None /\ ~configured /\ ConfigureProgress(MaxItems)
    \/ configured /\ watchpc = "idle"
          /\ \E input_path \in Paths, output_path \in Paths :
                Submit(input_path, output_path)
    \/ submitted = Files /\ watchpc = "idle" /\ WatchStart
    \/ watchpc = "returned" /\ WaitCall
    \/ WaitReturn

RequeuedOutcomes == {"ok", "Exception"}
RequeuedCallSeqs == {calls \in CallSeqs :
                        \A i \in 1..Len(calls) : calls[i] # "BaseException"}

StageWorker(w) ==
    \/ LoopCheck(w)
    \/ Get(w)
    \/ GetTimeout(w)
    \/ \E load \in RequeuedOutcomes :
          \E calls \in (IF load = "ok" THEN RequeuedCallSeqs ELSE {<<"ok">>}) :
             Process(w, load, calls)
    \/ Count(w)
    \/ Requeue(w)
    \/ TaskDone(w)

StageWatch ==
    \/ WatchDrain
    \/ WatchScan
    \/ WatchSleep

NextCrash == StageCaller \/ StageWatch \/ \E w \in WorkerIds : StageWorker(w)

SpecCrash ==
    /\ Init
    /\ [][NextCrash]_vars
    /\ WF_vars(StageCaller)
    /\ WF_vars(StageWatch)
    /\ \A w \in WorkerIds : WF_vars(StageWorker(w))

\* SpecStage: the same stage with every way a worker can fail, failures
\* that are not of class Exception and deaths without a raise included.
NextStage == StageCaller \/ StageWatch \/ \E w \in WorkerIds : WorkerStep(w)

SpecStage == Init /\ [][NextStage]_vars

(***************************************************************************)
(* SpecRetry: the worker loop with the try block of run() taken one call   *)
(* of separator.separate at a time (uvr.py:85-101, 141-146), so that the   *)
(* retries of _separate are steps of their own.  The caller sets the model *)
(* and submits; there is no watch().                                       *)
(***************************************************************************)
\* uvr.py:142-146  the try block up to the first call of _separate, which
\* is made with attempt = 0.  cs is what the successive calls of
\* separator.separate will do for this tuple.
SeparateEnter(w, load, cs) ==
    /\ wpc[w] = "process"
    /\ attempt' = [attempt EXCEPT ![w] = 0]
    /\ made' = [made EXCEPT ![w] = 0]
    /\ load_called' = [load_called EXCEPT ![w] = NeedsLoad(w)]
    /\ IF NeedsLoad(w) /\ load # "ok"
       THEN /\ faults < MaxFaults
            /\ faults' = faults + 1
            /\ wpc' = [wpc EXCEPT ![w] = RaiseTarget(load)]
            /\ sep_calls' = [sep_calls EXCEPT ![w] = <<>>]
            /\ UNCHANGED <<last_model, final_process>>
       ELSE /\ last_model' = [last_model EXCEPT ![w] = ModelOf(held[w])]
            /\ wpc' = [wpc EXCEPT ![w] = "separate"]
            /\ sep_calls' = [sep_calls EXCEPT ![w] = cs]
            /\ final_process' =
                  [final_process EXCEPT
                      ![w] = BindFinalProcess(held[w][2], FileOf(held[w]), 0)]
            /\ UNCHANGED faults
    /\ UNCHANGED <<parVars, written, isoVars>>
    /\ UNCHANGED <<queue, unfinished, progress_counter, mgrVars, held,
                   child_run, exitcode, submitted, processed, nPut, nDone,
                   nSpawn>>

\* uvr.py:96-101  one call of separator.separate inside _separate: it
\* returns, or raises ParameterError and _separate calls itself with
\* attempt + 1 while attempt < 3, or the error leaves _separate.
SeparateTry(w) ==
    /\ wpc[w] = "separate"
    /\ made' = [made EXCEPT ![w] = made[w] + 1]
    /\ LET outcome == sep_calls[w][made[w] + 1] IN
       IF outcome = "ok"
       THEN /\ processed' = processed \cup {FileOf(held[w])}
            /\ wpc' = [wpc EXCEPT ![w] = "count"]
            /\ UNCHANGED <<attempt, faults, final_process>>
       ELSE IF outcome = "ParameterError" /\ MayRetry(attempt[w])
            THEN /\ attempt' = [attempt EXCEPT ![w] = attempt[w] + 1]
                 /\ final_process' =
                       [final_process EXCEPT
                           ![w] = BindFinalProcess(held[w][2], FileOf(held[w]),
                                                   attempt[w] + 1)]
                 /\ UNCHANGED <<wpc, processed, faults>>
            ELSE /\ faults < MaxFaults
                 /\ faults' = faults + 1
                 /\ wpc' = [wpc EXCEPT ![w] =
                               RaiseTarget(IF outcome = "ParameterError"
                                           THEN "Exception" ELSE outcome)]
                 /\ UNCHANGED <<attempt, processed, final_process>>
    /\ UNCHANGED <<parVars, isoVars>>
    /\ UNCHANGED <<queue, unfinished, progress_counter, mgrVars, held,
                   last_model, child_run, exitcode, submitted, nPut, nDone,
                   nSpawn, sep_calls, load_called, written>>

\* uvr.py:97 with 61-70  separator.separate, while it runs, hands each stem
\* to final_process, which writes it; the call may still fail afterwards.
FinalProcess(w, stem_name) ==
    /\ wpc[w] = "separate"
    /\ written' = written \cup
          {[item |-> held[w], stem |-> stem_name, worker |-> w,
            key |-> CustomFinalProcess(final_process[w].output_path,
                                       final_process[w].filename, stem_name)]}
    /\ UNCHANGED <<poolVars, parVars, isoVars>>
    /\ UNCHANGED <<sep_calls, attempt, made, load_called, final_process>>

RetryCaller ==
    \/ \E model \in Tags : SetModel(model)
    \/ \E input_path \in Paths, output_path \in Paths :
          Submit(input_path, output_path)

RetryWorker(w) ==
    \/ LoopCheck(w)
    \/ Get(w)
    \/ GetTimeout(w)
    \/ \E load \in LoadOutcomes :
          \E cs \in (IF load = "ok" THEN CallSeqs ELSE {<<"ok">>}) :
             SeparateEnter(w, load, cs)
    \/ SeparateTry(w)
    \/ Count(w)
    \/ Requeue(w)
    \/ TaskDone(w)

NextRetry == RetryCaller \/ \E w \in WorkerIds : RetryWorker(w)

\* The pool is used for one stage after another (uvr.py:372-385): a
\* worker enters a stage with the model it loaded last in the stage before,
\* or with none.
InitRetry ==
    /\ queue = <<>>
    /\ unfinished = 0
    /\ progress_counter = 0
    /\ wanted_model = None
    /\ workers = 1..PoolSize
    /\ configured = FALSE
    /\ task = [total |-> 0, completed |-> 0]
    /\ watchpc = "idle"
    /\ mpc = "ready"
    /\ error = None
    /\ wpc = [w \in WorkerIds |-> IF w \in Started THEN "loop" ELSE "unborn"]
    /\ held = [w \in WorkerIds |-> NoItem]
    /\ last_model \in [WorkerIds -> Tags \cup {None}]
    /\ \A w \in WorkerIds \ Started : last_model[w] = None
    /\ handle_run = [w \in WorkerIds |-> ValueObject]
    /\ child_run = [w \in WorkerIds |-> ValueObject]
    /\ exitcode = [w \in WorkerIds |-> None]
    /\ submitted = {}
    /\ processed = {}
    /\ nPut = 0
    /\ nDone = 0
    /\ nSpawn = PoolSize
    /\ faults = 0
    /\ ParIdle
    /\ SepIdle
    /\ IsoIdle

SpecRetry == InitRetry /\ [][NextRetry]_vars

(***************************************************************************)
(* SpecRedeliver: one stage of isolate_vocals with watch() respawning dead *)
(* workers, _separate taken call by call, and the stems written by each    *)
(* call.                                                                   *)
(***************************************************************************)
NextRedeliver ==
    \/ StageCaller
    \/ StageWatch
    \/ \E w \in WorkerIds : RetryWorker(w)
    \/ \E w \in WorkerIds, stem_name \in Stems : FinalProcess(w, stem_name)

SpecRedeliver == InitRetry /\ [][NextRedeliver]_vars

(***************************************************************************)
(* SpecIsolate: isolate_vocals (uvr.py:276-394) from the construction of   *)
(* the runner and the pool on, with at least one file to process.  The     *)
(* conversion jobs of the first stage run under the Parallel runner and    *)
(* submit to the pool while watch() is running; the workers may fail in    *)
(* every way.  ipc is "start", "gather1" (the await of uvr.py:368),        *)
(* "wait1" (uvr.py:372), "submit2" (uvr.py:383-385), "watch2" (uvr.py:387),*)
(* "wait2" (uvr.py:391), "teardown" (uvr.py:393-394) or "raised" (an       *)
(* exception has left isolate_vocals).                                     *)
(***************************************************************************)
\* config.UVR_FIRST_MODEL and config.UVR_SECOND_MODEL (uvr.py:324, 375).
FirstModel == "A"
SecondModel == "B"

\* uvr.py:283-285
FormattedPath == "formatted"
SplitPath == "split"
ReverbPath == "reverb"

\* uvr.py:287, 300-302  len(files), not 0 past the early return.
NumFiles == MaxItems

\* uvr.py:336, 341  the file key the conversion job of file i submits, and
\* uvr.py:384  the key submitted for file i in the second stage.
Stage1File(i) == i
Stage2File(i) == NumFiles + i

\* Faulty variant of QueueJoined: wait() returns whatever is unfinished.
QueueJoinedAlways == TRUE

\* uvr.py:211  JoinableQueue.join() returns.
QueueJoined == unfinished = 0

InitIsolate ==
    /\ PoolInit
    /\ ParInit
    /\ ~immediate
    /\ ~owns_progress
    /\ owns_task
    /\ SepIdle
    /\ ipc = "start"

\* Faulty variant of StageOneTotal: the first stage is given len(files).
StageOneTotalAllFiles(nsplit) == NumFiles

\* uvr.py:361-366  the total bound for the first stage: len(split_files).
StageOneTotal(nsplit) == nsplit

\* uvr.py:324-366  set_model, one ffmpegs.run per file that is not split
\* yet (nsplit of them), configure_progress with their number.
IsoPrepare(nsplit) ==
    /\ ipc = "start"
    /\ wanted_model' = FirstModel
    /\ configured' = TRUE
    /\ progress_counter' = 0
    /\ task' = [total |-> StageOneTotal(nsplit), completed |-> 0]
    /\ jobs' = [j \in 1..nsplit |-> "coro"]
    /\ ipc' = "gather1"
    /\ UNCHANGED sepVars
    /\ UNCHANGED <<concurrency, immediate, owns_progress, owns_task, semaphore,
                   ptask, pstarted, waitpc, errors, raisedErr>>
    /\ UNCHANGED <<queue, unfinished, workers, watchpc, mpc, error,
                   handle_run, workerVars, ghostVars>>

\* uvr.py:332-341 inside __run (parallel.py:57-62)  convert_and_process:
\* the conversion raises, or the converted file is submitted to the pool.
ConvertAndProcess(j, raises) ==
    /\ ipc = "gather1"
    /\ jobs[j] = "running"
    /\ ptask' = [ptask EXCEPT !.completed = ptask.completed + 1]
    /\ semaphore' = semaphore + 1
    /\ jobs' = [jobs EXCEPT ![j] = IF raises THEN "failed" ELSE "ok"]
    /\ errors' = IF raises /\ waitpc = "gathering"
                 THEN Append(errors, j) ELSE errors
    /\ IF raises
       THEN UNCHANGED <<queue, unfinished, submitted, nPut>>
       ELSE /\ queue' = Append(queue, SubmitTuple(FormattedPath, SplitPath,
                                                  Stage1File(j)))
            /\ unfinished' = unfinished + 1
            /\ submitted' = submitted \cup {Stage1File(j)}
            /\ nPut' = nPut + 1
    /\ UNCHANGED <<sepVars, isoVars>>
    /\ UNCHANGED <<concurrency, immediate, owns_progress, owns_task, pstarted,
                   waitpc, raisedErr>>
    /\ UNCHANGED <<progress_counter, mgrVars, workerVars, processed, nDone,
                   nSpawn, faults>>

\* Faulty variant of IsoGatherRaises: the pool is told to terminate before
\* the exception leaves isolate_vocals.
IsoGatherRaisesTeardown ==
    /\ ipc = "gather1"
    /\ waitpc = "raised"
    /\ ipc' = "raised"
    /\ handle_run' = [w \in WorkerIds |->
                        IF w \in workers THEN PyFalse ELSE handle_run[w]]
    /\ UNCHANGED <<parVars, sepVars>>
    /\ UNCHANGED <<queue, unfinished, progress_counter, wanted_model, workers,
                   sinkVars, watchpc, mpc, error, workerVars, ghostVars>>

\* uvr.py:368  the exception of ffmpegs.wait() leaves gather() and, with no
\* handler in isolate_vocals, the function.
IsoGatherRaises ==
    /\ ipc = "gather1"
    /\ waitpc = "raised"
    /\ ipc' = "raised"
    /\ UNCHANGED <<poolVars, parVars, sepVars>>

\* uvr.py:368-372  gather() has both results; uvr_workers.wait() is called.
IsoWait1 ==
    /\ ipc = "gather1"
    /\ waitpc = "returned"
    /\ watchpc = "returned"
    /\ ipc' = "wait1"
    /\ mpc' = "wait"
    /\ UNCHANGED <<parVars, sepVars>>
    /\ UNCHANGED <<queue, unfinished, progress_counter, wanted_model, workers,
                   sinkVars, watchpc, error, handle_run, workerVars,
                   ghostVars>>

\* uvr.py:372-381  wait() returns; set_model and configure_progress for the
\* second stage, with total len(files).
IsoStage2 ==
    /\ ipc = "wait1"
    /\ mpc = "wait"
    /\ QueueJoined
    /\ mpc' = "ready"
    /\ wanted_model' = SecondModel
    /\ progress_counter' = 0
    /\ task' = [total |-> NumFiles, completed |-> 0]
    /\ watchpc' = "idle"
    /\ ipc' = "submit2"
    /\ UNCHANGED <<parVars, sepVars>>
    /\ UNCHANGED <<queue, unfinished, workers, configured, error, handle_run,
                   workerVars, ghostVars>>

\* Files of the second stage submitted so far.
Submitted2 == {i \in 1..NumFiles : Stage2File(i) \in submitted}

\* uvr.py:383-385  one submit of the loop; after the last one watch() is
\* awaited.
IsoSubmit2 ==
    /\ ipc = "submit2"
    /\ LET i == Cardinality(Submitted2) + 1 IN
       /\ queue' = Append(queue, SubmitTuple(SplitPath, ReverbPath,
                                             Stage2File(i)))
       /\ unfinished' = unfinished + 1
       /\ submitted' = submitted \cup {Stage2File(i)}
       /\ nPut' = nPut + 1
       /\ ipc' = IF i = NumFiles THEN "watch2" ELSE "submit2"
    /\ UNCHANGED <<parVars, sepVars>>
    /\ UNCHANGED <<progress_counter, mgrVars, workerVars, processed, nDone,
                   nSpawn, faults>>

\* Faulty variant of IsoWait2: the second barrier is left out.
IsoWait2Skipped ==
    /\ ipc = "watch2"
    /\ watchpc = "returned"
    /\ ipc' = "teardown"
    /\ UNCHANGED <<poolVars, parVars, sepVars>>

\* uvr.py:387-391  watch() has returned; uvr_workers.wait() is called.
IsoWait2 ==
    /\ ipc = "watch2"
    /\ watchpc = "returned"
    /\ ipc' = "wait2"
    /\ mpc' = "wait"
    /\ UNCHANGED <<parVars, sepVars>>
    /\ UNCHANGED <<queue, unfinished, progress_counter, wanted_model, workers,
                   sinkVars, watchpc, error, handle_run, workerVars,
                   ghostVars>>

\* uvr.py:391  the second wait() returns.
IsoWait2Return ==
    /\ ipc = "wait2"
    /\ mpc = "wait"
    /\ QueueJoined
    /\ mpc' = "ready"
    /\ ipc' = "teardown"
    /\ UNCHANGED <<parVars, sepVars>>
    /\ UNCHANGED <<queue, unfinished, progress_counter, wanted_model, workers,
                   sinkVars, watchpc, error, handle_run, workerVars,
                   ghostVars>>

\* uvr.py:368, 387  the steps of the runner's wait() and of watch() while
\* isolate_vocals awaits them, and uvr.py:393-394.  join() does not return
\* while a worker is alive.
IsoAwaited ==
    \/ ipc = "gather1" /\ WaitStart
    \/ ipc = "gather1" /\ \E j \in JobIds : Acquire(j)
    \/ ipc = "gather1" /\ WaitReturns
    \/ ipc = "gather1" /\ WaitRaises
    \/ ipc \in {"gather1", "watch2"} /\ watchpc = "idle" /\ WatchStart
    \/ ipc \in {"gather1", "watch2"} /\ WatchDrain
    \/ ipc \in {"gather1", "watch2"} /\ WatchScan
    \/ ipc \in {"gather1", "watch2"} /\ WatchSleep

IsoTeardown ==
    \/ ipc = "teardown" /\ mpc = "ready" /\ Terminate
    \/ ipc = "teardown" /\ JoinCall

NextIsolate ==
    \/ \E nsplit \in 0..NumFiles : IsoPrepare(nsplit)
    \/ \E j \in JobIds, raises \in BOOLEAN : ConvertAndProcess(j, raises)
    \/ IsoAwaited
    \/ IsoGatherRaises
    \/ IsoWait1
    \/ IsoStage2
    \/ IsoSubmit2
    \/ IsoWait2
    \/ IsoWait2Return
    \/ IsoTeardown
    \/ \E w \in WorkerIds : WorkerStep(w)

SpecIsolate == InitIsolate /\ [][NextIsolate]_vars

(***************************************************************************)
(* Properties of the task runner (SpecParallel).                           *)
(***************************************************************************)
RunningJobs == {j \in JobIds : jobs[j] = "running"}

\* C1: at no instant do more than `concurrency` jobs run their closure,
\* whatever the limit and the number of submitted jobs.
BoundRespected == Cardinality(RunningJobs) <= concurrency

\* The gate is full while another job is waiting at it.
BoundReached ==
    /\ Cardinality(RunningJobs) = concurrency
    /\ \E j \in JobIds : jobs[j] = "gate"

\* C6: wait() raises only after every submitted job has settled: at the
\* step where it raises, no job is running or waiting at the gate.
RaisesAfterAllSettled ==
    [][(waitpc = "gathering" /\ waitpc' = "raised")
          => \A j \in JobIds : Settled(j)]_vars

\* C7: when wait() has returned without raising, every submitted job has
\* run to completion.
JoinCompleteJobs ==
    waitpc = "returned" => \A j \in JobIds : jobs[j] = "ok"

\* wait() has returned for a runner with several jobs.
JoinedSeveralJobs == waitpc = "returned" /\ Len(jobs) >= 2

\* C8: when wait() has returned without raising, the completed count of the
\* runner's task equals the number of submitted jobs, in deferred and in
\* immediate mode.
JoinCompleteProgress ==
    waitpc = "returned" => ptask.completed = Len(jobs)

(***************************************************************************)
(* Properties of the worker pool (Spec).                                   *)
(***************************************************************************)
\* File keys submitted and not yet successfully processed.
Unprocessed == submitted \ processed

\* C2: wait() never returns while a submitted item has not been
\* successfully processed, on every path by which a worker leaves the
\* processing block.
BarrierSound ==
    [][(mpc = "wait" /\ mpc' = "ready") => Unprocessed = {}]_vars

\* C3: the unfinished counter equals the puts minus the task_done calls,
\* and equals the number of tuples on the queue or held by a worker and
\* not yet marked done.
QueueConservation ==
    /\ unfinished = nPut - nDone
    /\ unfinished = Len(queue) + NumHeld

\* A failed worker has put its tuple back, marked its dequeue done and
\* exited, and the tuple is on the queue again.
RequeuedAfterFailure ==
    /\ \E w \in WorkerIds : exitcode[w] = "1" /\ ~Holding(w)
    /\ nPut > Cardinality(submitted)
    /\ queue # <<>>

\* C5: the set of handles always has the size given at construction, and a
\* complete watch iteration leaves only live workers in it.
PoolSizeKept ==
    /\ Cardinality(workers) = PoolSize
    /\ [][/\ Cardinality(workers') = PoolSize
          /\ (watchpc = "scan" /\ watchpc' # "scan")
                => \A w \in workers' : Alive(w)']_vars

\* A dead worker has been replaced: the set holds a process started by
\* watch(), and every handle in it is alive.
WorkerRespawned ==
    /\ nSpawn > PoolSize
    /\ watchpc = "sleep"
    /\ \E w \in workers : w > PoolSize
    /\ \A w \in workers : Alive(w)

\* C9: a failing worker puts its tuple back before it marks the dequeue
\* done, so the unfinished counter never drops below the number of items
\* not yet successfully processed.
RequeueBeforeAck == unfinished >= Cardinality(Unprocessed)

\* C10: a worker whose handle has been through terminate() leaves its
\* dequeue loop at its next loop test.
StopObserved ==
    [][\A w \in WorkerIds :
          (wpc[w] = "loop" /\ ~Truthy(handle_run[w]) /\ wpc'[w] # "loop")
             => wpc'[w] = "exited"]_vars
(***************************************************************************)
(* Properties of one stage with failing workers (SpecCrash).               *)
(***************************************************************************)
\* C4: with the total set to the number of items and a worker failing
\* after it has requeued its item, every item is eventually processed,
\* watch() terminates and every wait() returns.
NoItemLost ==
    /\ <>(submitted = Files /\ processed = Files /\ watchpc = "returned")
    /\ (mpc = "wait") ~> (mpc = "ready" /\ Unprocessed = {})

\* One worker has failed and requeued, and the stage is over: everything is
\* processed, watch() has returned and the queue is joined.
StageDoneAfterCrash ==
    /\ faults = 1
    /\ \E w \in WorkerIds : exitcode[w] = "1"
    /\ processed = Files
    /\ watchpc = "returned"
    /\ mpc = "ready"
    /\ unfinished = 0

\* The tuple of file f is on the queue.
OnQueue(f) == \E i \in 1..Len(queue) : FileOf(queue[i]) = f

WatchReturnsAtTotal ==
    /\ [][(watchpc # "scan" /\ watchpc' = "scan")
            => /\ watchpc = "drain"
               /\ progress_counter' = 0
               /\ task'.completed = task.completed + progress_counter]_vars
    /\ [][(watchpc = "scan" /\ watchpc' # "scan")
            => (watchpc' = "returned" <=> task.completed >= task.total)]_vars
    /\ [][(watchpc # "returned" /\ watchpc' = "returned" /\ task.total > 0)
            => (watchpc = "scan" /\ task.completed >= task.total)]_vars
    /\ (watchpc = "scan" /\ task.completed >= task.total)
          ~> (watchpc = "returned")

\* watch() has returned with the drained count at a total above zero.
WatchReturnedAtTotal ==
    /\ watchpc = "returned"
    /\ task.total > 0
    /\ task.completed >= task.total
    /\ progress_counter = 0

(***************************************************************************)
(* Further properties of the worker pool (Spec).                           *)
(***************************************************************************)
\* C13: with a total of zero watch() returns at once: it is never inside an
\* iteration, and the call leaves the shared counter, the task, the set of
\* handles and the worker processes as they are.
ZeroTotalReturnsAtOnce ==
    /\ [](configured /\ task.total = 0 => watchpc \in {"idle", "returned"})
    /\ [][(WatchStart /\ configured /\ task.total = 0)
            => /\ watchpc' = "returned"
               /\ UNCHANGED <<progress_counter, task, workers, nSpawn, wpc,
                              exitcode>>]_vars

\* watch() has returned on a total of zero while a completion was waiting in
\* the shared counter, and has not drained it.
ZeroTotalWatchReturned ==
    /\ watchpc = "returned"
    /\ configured
    /\ task.total = 0
    /\ task.completed = 0
    /\ progress_counter > 0
    /\ error = None

\* Handles that watch() has taken out of the set.
Removed == (1..nSpawn) \ workers

\* C14: respawn is one for one.  Every handle taken out of the set was dead
\* and is matched by exactly one process started by watch(); a scan takes
\* out every handle it finds dead and puts in as many new processes, never
\* a handle it removed before; so there are never more respawns than worker
\* exits, and the set keeps the configured size.
RespawnOneForOne ==
    /\ [](/\ workers \subseteq 1..nSpawn
          /\ Cardinality(workers) = PoolSize
          /\ Cardinality(Removed) = nSpawn - PoolSize
          /\ \A w \in Removed : exitcode[w] # None
          /\ nSpawn - PoolSize <= faults)
    /\ [][/\ \A w \in workers \ workers' : exitcode[w] # None
          /\ workers' \ workers = (nSpawn + 1)..nSpawn'
          /\ Cardinality(workers' \ workers) = Cardinality(workers \ workers')
          /\ (watchpc = "scan" /\ watchpc' # "scan")
                => workers \ workers' = {w \in workers : exitcode[w] # None}
         ]_vars

\* One worker has failed, one process has been started in its place, and
\* the stage has come to its end with the set at the configured size.
RespawnedOnce ==
    /\ faults = 1
    /\ nSpawn = PoolSize + 1
    /\ Cardinality(Removed) = 1
    /\ Cardinality(workers) = PoolSize
    /\ watchpc = "returned"
    /\ submitted # {}
    /\ processed = submitted

\* C15: submit() with no model tag set raises ValueError to its caller in
\* the call itself, and leaves the queue, its unfinished counter and the
\* completion counter as they were: nothing is ever enqueued while no tag
\* is set.
SubmitNeedsModel ==
    /\ [](wanted_model = None
            => queue = <<>> /\ unfinished = 0 /\ submitted = {} /\ nPut = 0)
    /\ [](error = "ValueError" => wanted_model = None /\ mpc = "ready")
    /\ [][(/\ wanted_model = None
           /\ \E input_path \in Paths, output_path \in Paths :
                 Submit(input_path, output_path))
            => /\ error' = "ValueError"
               /\ UNCHANGED <<queue, unfinished, progress_counter>>]_vars

\* A submit() made before any set_model() has been refused.
SubmitRejected ==
    /\ error = "ValueError"
    /\ wanted_model = None
    /\ queue = <<>>
    /\ unfinished = 0
    /\ progress_counter = 0

\* The tuple of file f is on the queue or in the hands of a live worker.
InFlight(f) ==
    \/ OnQueue(f)
    \/ \E w \in WorkerIds : Alive(w) /\ Holding(w) /\ FileOf(held[w]) = f

\* File f was submitted, has not been processed and no tuple of it is left
\* for a worker to take.
Lost(f) == f \in submitted /\ f \notin processed /\ ~InFlight(f)

\* C16: a worker whose processing of a dequeued item has failed for good
\* exits without going back to the queue, and at its exit the item is not
\* dropped: it is on the queue again (or already with another worker).
FatalFailureRequeues ==
    [][\A w \in WorkerIds :
          /\ (wpc[w] \in {"except", "finally_raise"})
                => wpc'[w] \in {"except", "finally_raise", "exited"}
          /\ (wpc[w] = "finally_raise" /\ wpc'[w] = "exited")
                => \A f \in submitted : f = FileOf(held[w]) => ~Lost(f)']_vars

\* C17: an item is lost for good only when the worker holding it died
\* before the requeue-or-ack step: every lost item is still in the hands
\* of a worker process that was killed.
ItemLossConfined ==
    \A f \in submitted :
       Lost(f) => \E w \in WorkerIds :
                     /\ ~Alive(w)
                     /\ Holding(w)
                     /\ FileOf(held[w]) = f
                     /\ exitcode[w] \in {"-9", "-15"}

\* The model tags carried by the tuples of file f, on the queue and in the
\* hands of the workers.
TagsOf(f) ==
    {ModelOf(queue[i]) : i \in {j \in 1..Len(queue) : FileOf(queue[j]) = f}}
    \cup {ModelOf(held[w]) :
             w \in {v \in WorkerIds : Holding(v) /\ FileOf(held[v]) = f}}

\* C19: set_model changes only the tag given to later submits.  A step that
\* changes the wanted tag leaves the queue, the tuples held by workers and
\* both counters alone; a tuple gets the wanted tag of the moment of its
\* submit and keeps it for as long as it is queued, held or requeued; and a
\* worker processes an item with the model of the item's own tag loaded.
SetModelFrame ==
    /\ [](\A f \in Files : Cardinality(TagsOf(f)) <= 1)
    /\ [][wanted_model' # wanted_model
            => UNCHANGED <<queue, held, unfinished, progress_counter,
                           submitted>>]_vars
    /\ [][\A f \in Files :
            /\ (f \notin submitted /\ f \in submitted')
                  => TagsOf(f)' = {wanted_model}
            /\ TagsOf(f) # {} => TagsOf(f)' \subseteq TagsOf(f)]_vars
    /\ [][\A w \in WorkerIds :
            (wpc[w] = "process" /\ wpc'[w] = "count")
               => last_model'[w] = ModelOf(held[w])]_vars

\* An item submitted under one tag has been processed under that tag after
\* set_model had changed the wanted tag to another.
TagKeptAcrossSetModel ==
    \E w \in WorkerIds :
       /\ wpc[w] = "count"
       /\ Holding(w)
       /\ ModelOf(held[w]) # wanted_model
       /\ last_model[w] = ModelOf(held[w])

\* Completions the watch loop has counted or will count at its next drain.
Counted == task.completed + progress_counter

\* C20: configure_progress leaves the shared counter at 0, the completed
\* count of the bound task at 0 and its total at the given total.  From
\* then on what watch() counts grows only by a worker's increment, made
\* after the call and before that worker's task_done; the drain moves the
\* count from the counter to the task and nothing else lowers either.
ConfigureResets ==
    /\ [][\A total \in TotalArgs :
            ConfigureProgress(total)
               => /\ configured'
                  /\ progress_counter' = 0
                  /\ task'.completed = 0
                  /\ total # NoArg => task'.total = total]_vars
    /\ [][(watchpc = "drain" /\ watchpc' = "scan") => Counted' = Counted]_vars
    /\ [][Counted' < Counted => progress_counter' = 0 /\ task'.completed = 0]_vars
    /\ [][Counted' > Counted
            => /\ Counted' = Counted + 1
               /\ \E w \in WorkerIds :
                     /\ wpc[w] = "count" /\ wpc'[w] = "finally"
                     /\ Holding(w) /\ held'[w] = held[w]
                     /\ nDone' = nDone]_vars

\* A completion counted before the call has been wiped: an item has been
\* processed and counted, no watch() has run, and the counter and the
\* task are at 0 after configure_progress.
ConfigureWipedCount ==
    /\ configured
    /\ watchpc = "idle"
    /\ mpc = "ready"
    /\ faults = 0
    /\ processed # {}
    /\ \A w \in WorkerIds : wpc[w] # "count"
    /\ progress_counter = 0
    /\ task.completed = 0

\* C22: a job that leaves func, by return or by exception, advances the
\* task by exactly one and gives its slot back in the same step; the free
\* slots are always K less the jobs inside func, so once every job has
\* settled all K slots are free, failed jobs or not, and a waiting job
\* finds a free slot whenever fewer than K jobs are inside func.
GateReleased ==
    /\ [](semaphore = concurrency - Cardinality(RunningJobs))
    /\ []((\A j \in JobIds : jobs[j] \in {"ok", "failed"})
             => semaphore = concurrency)
    /\ [](\A j \in JobIds :
            (jobs[j] = "gate" /\ Cardinality(RunningJobs) < concurrency)
               => semaphore > 0)
    /\ [][\A j \in JobIds :
            (jobs[j] = "running" /\ jobs'[j] # "running")
               => /\ jobs'[j] \in {"ok", "failed"}
                  /\ semaphore' = semaphore + 1
                  /\ ptask'.completed = ptask.completed + 1
          ]_vars

\* More jobs than slots have all settled, one of them by raising, and the
\* gate has its K slots again.
GateRefilledAfterFailure ==
    /\ Len(jobs) > concurrency
    /\ \A j \in JobIds : Settled(j)
    /\ \E j \in JobIds : jobs[j] = "failed"
    /\ jobs[Len(jobs)] = "ok"
    /\ semaphore = concurrency

\* C23: run() appends one job and touches nothing else; in a runner that is
\* not immediate the job stays an unscheduled coroutine, and no job is
\* scheduled, running or settled before wait() is called; in an immediate
\* runner the job is scheduled by run() itself and still enters func only
\* through the semaphore, one free slot being taken per entry.
DeferredOrImmediate ==
    /\ []((~immediate /\ waitpc = "none")
             => \A j \in JobIds : jobs[j] = "coro")
    /\ [](immediate => \A j \in JobIds : jobs[j] # "coro")
    /\ [][Len(jobs') > Len(jobs)
             => /\ Len(jobs') = Len(jobs) + 1
                /\ SubSeq(jobs', 1, Len(jobs)) = jobs
                /\ jobs'[Len(jobs')] = (IF immediate THEN "gate" ELSE "coro")
                /\ UNCHANGED <<semaphore, ptask, waitpc>>
          ]_vars
    /\ [][\A j \in JobIds :
            (jobs[j] # "running" /\ jobs'[j] = "running")
               => /\ jobs[j] = "gate"
                  /\ semaphore > 0
                  /\ semaphore' = semaphore - 1
          ]_vars

\* An immediate runner before wait(): a job submitted earlier is already
\* inside func, the gate is full and a later job waits at it.
ImmediateRunsBeforeWait ==
    /\ immediate
    /\ waitpc = "none"
    /\ semaphore = 0
    /\ \E j \in JobIds : jobs[j] = "running"
    /\ \E j \in JobIds : jobs[j] = "gate"

\* C24: wait() called with no collected job returns in that same step: the
\* task gets total 0 and is hidden, no slot of the semaphore is taken and
\* nothing is awaited; a display the runner owns is stopped.
WaitWithNoJobs ==
    /\ [][(waitpc = "none" /\ waitpc' # "none" /\ Len(jobs) = 0)
             => /\ waitpc' = "returned"
                /\ ptask'.total = 0
                /\ ptask'.completed = 0
                /\ ~ptask'.visible
                /\ pstarted' = ~owns_progress
                /\ UNCHANGED <<semaphore, jobs, errors, raisedErr>>
          ]_vars
    /\ []((waitpc = "returned" /\ Len(jobs) = 0)
             => /\ ptask.total = 0
                /\ ~ptask.visible
                /\ semaphore = concurrency)

\* wait() has returned from a runner with no job, whose task line belongs
\* to the caller: the line is hidden by the update of the total alone.
WaitedWithNoJobs ==
    /\ waitpc = "returned"
    /\ Len(jobs) = 0
    /\ ~owns_task
    /\ ~ptask.visible
    /\ ptask.total = 0

AboutToCount == {w \in WorkerIds : wpc[w] = "count"}

\* C27: from configure_progress on, what watch() has forwarded to the task
\* plus what the shared counter holds is the number of processing calls
\* that have succeeded, less those whose worker has not yet made its
\* increment: no increment is lost by a drain and none is forwarded twice.
CounterExact ==
    configured
       => /\ Counted + Cardinality(AboutToCount) = Cardinality(processed)
          /\ progress_counter >= 0
          /\ task.completed >= 0

\* The item failed once and was requeued, then succeeded: the drain has
\* forwarded its one completion and left the counter at 0.
DrainedOnce ==
    /\ task.completed = 1
    /\ progress_counter = 0
    /\ Cardinality(processed) = 1
    /\ nPut > Cardinality(submitted)
    /\ watchpc = "returned"

\* C28: whenever the unfinished counter is 0 in a stage, the completions
\* counted for it, drained and pending, are at least the items submitted.
StageAckOrder ==
    (configured /\ unfinished = 0) => Counted >= Cardinality(submitted)

NoCleanupOnFailure ==
    /\ [](waitpc = "raised" => ptask.visible /\ pstarted)
    /\ [][(pstarted /\ ~pstarted')
             => /\ owns_progress
                /\ waitpc # "returned" /\ waitpc' = "returned"
                /\ \A j \in JobIds : jobs[j] = "ok"
          ]_vars
    /\ [][(ptask.visible /\ ~ptask'.visible)
             => /\ waitpc # "returned" /\ waitpc' = "returned"
                /\ \A j \in JobIds : jobs[j] = "ok"
          ]_vars

\* wait() has raised on a runner that owns both its task line and its
\* display: the line is visible and the display started.
RaisedWithoutCleanup ==
    /\ waitpc = "raised"
    /\ owns_task
    /\ owns_progress
    /\ ptask.visible
    /\ pstarted

\* C37: as long as configure_progress has not been called, watch() is never
\* inside an iteration: nothing has been drained into the task, no handle
\* has left the set and no process has been started after construction;
\* a call of watch() then raises RuntimeError and changes nothing else.
WatchNeedsConfiguration ==
    /\ [](~configured
            => /\ watchpc = "idle"
               /\ task = [total |-> 0, completed |-> 0]
               /\ workers = 1..PoolSize
               /\ nSpawn = PoolSize)
    /\ [][(WatchStart /\ ~configured)
            => /\ error' = "RuntimeError"
               /\ UNCHANGED <<queue, unfinished, progress_counter, workers,
                              task, watchpc, wpc, held, exitcode, nSpawn,
                              handle_run, mpc>>
          ]_vars

\* watch() has raised RuntimeError on a pool never configured, in which a
\* worker has died: the dead handle is still in the set.
WatchRaisedUnconfigured ==
    /\ ~configured
    /\ error = "RuntimeError"
    /\ \E w \in workers : exitcode[w] # None
    /\ nSpawn = PoolSize

\* C31: when watch() has returned for a stage with a total T > 0 in which
\* T items were submitted, every submitted item has been processed, the
\* task has counted T and the shared counter holds nothing undrained.
WatchReturnMeansDone ==
    (watchpc = "returned" /\ task.total > 0
        /\ Cardinality(submitted) = task.total)
       => /\ processed = submitted
          /\ task.completed = task.total
          /\ progress_counter = 0

\* watch() has returned with every item processed while the worker of the
\* last one has not yet called task_done: the unfinished counter is not 0.
WatchReturnedBeforeAck ==
    /\ watchpc = "returned"
    /\ task.total > 0
    /\ processed = submitted
    /\ Cardinality(submitted) = task.total
    /\ unfinished > 0
    /\ \E w \in WorkerIds : wpc[w] = "finally"

(***************************************************************************)
(* Properties of _separate (SpecRetry).                                    *)
(***************************************************************************)
\* C18: for one dequeued item a ParameterError of the processing call is
\* retried on the same item, at most 3 times after the first attempt; a
\* retry neither requeues the item nor changes the unfinished counter or
\* the completion counter.  The stepwise run of _separate ends as the
\* function SeparateCall says.
BoundedRetry ==
    /\ [](\A w \in WorkerIds :
            /\ made[w] <= MaxAttempt + 1
            /\ attempt[w] <= MaxAttempt
            /\ wpc[w] = "separate" => made[w] = attempt[w])
    /\ [](\A w \in WorkerIds :
            (made[w] >= 1 /\ wpc[w] # "separate")
               => LET r == SeparateCall(sep_calls[w], 0) IN
                  /\ r.attempt = attempt[w]
                  /\ made[w] = attempt[w] + 1
                  /\ (wpc[w] = "count" => r.result = "ok"))
    /\ [][\A w \in WorkerIds :
            (wpc[w] = "separate" /\ made'[w] > made[w])
               => LET outcome == sep_calls[w][made[w] + 1] IN
                  /\ (outcome = "ParameterError" /\ attempt[w] < MaxAttempt)
                        => wpc'[w] = "separate"
                  /\ wpc'[w] = "separate"
                        => /\ outcome = "ParameterError"
                           /\ attempt'[w] = attempt[w] + 1
                           /\ held'[w] = held[w]
                           /\ UNCHANGED <<queue, unfinished,
                                          progress_counter, nPut, nDone>>
          ]_vars

\* The processing call has failed with ParameterError four times running
\* and the third retry has been the last: the error leaves _separate.
RetriesUsedUp ==
    \E w \in WorkerIds :
       /\ wpc[w] = "except"
       /\ made[w] = MaxAttempt + 1
       /\ attempt[w] = MaxAttempt
       /\ sep_calls[w][MaxAttempt + 1] = "ParameterError"
       /\ queue = <<>>
       /\ unfinished = 1

\* C21: load_model is called for a dequeued tuple exactly when its model
\* tag differs from the tag the worker loaded last; the last-loaded tag of
\* a running worker changes only with a load, to the tag of the tuple in
\* hand; and whenever
\* the worker is at a call of separator.separate its last-loaded tag is the
\* tuple's tag.
ReloadRule ==
    /\ [](\A w \in WorkerIds :
            wpc[w] = "separate" => last_model[w] = ModelOf(held[w]))
    /\ [][\A w \in WorkerIds :
            (wpc[w] = "process" /\ wpc'[w] # "process")
               => (load_called'[w] <=> ModelOf(held[w]) # last_model[w])
          ]_vars
    /\ [][\A w \in WorkerIds :
            (last_model'[w] # last_model[w] /\ wpc'[w] # "exited")
               => /\ wpc[w] = "process"
                  /\ load_called'[w]
                  /\ last_model'[w] = ModelOf(held[w])
          ]_vars

\* A worker is at the processing call of a tuple whose tag it had loaded
\* before: no load was made for it.
ReloadSkipped ==
    \E w \in WorkerIds :
       /\ wpc[w] = "separate"
       /\ ~load_called[w]
       /\ last_model[w] = ModelOf(held[w])


\* C29: a ParameterError leaves _separate only from the call made with
\* attempt = 3, and then enters the handler as any Exception does; an error
\* of another class leaves _separate at the call that raised it, without a
\* further call; from the handler the worker puts the tuple back on the
\* queue, and from the finally clause of a raising worker task_done is
\* called once and the worker exits with code 1.
TransientEscalates ==
    /\ [][\A w \in WorkerIds :
            (wpc[w] = "separate" /\ made'[w] > made[w])
               => LET outcome == sep_calls[w][made[w] + 1] IN
                  /\ (outcome = "ParameterError" /\ wpc'[w] # "separate")
                        => /\ attempt[w] = MaxAttempt
                           /\ made'[w] = MaxAttempt + 1
                           /\ wpc'[w] = "except"
                  /\ outcome = "Exception"
                        => wpc'[w] = "except" /\ attempt'[w] = attempt[w]
                  /\ outcome = "BaseException"
                        => wpc'[w] = "finally_raise"
                              /\ attempt'[w] = attempt[w]
          ]_vars
    /\ [][\A w \in WorkerIds :
            (wpc[w] = "except" /\ wpc'[w] # "except")
               => /\ wpc'[w] = "finally_raise"
                  /\ queue' = Append(queue, held[w])
                  /\ unfinished' = unfinished + 1
                  /\ nDone' = nDone
                  /\ held'[w] = held[w]
          ]_vars
    /\ [][\A w \in WorkerIds :
            (wpc[w] = "finally_raise" /\ wpc'[w] # "finally_raise")
               => /\ wpc'[w] = "exited"
                  /\ exitcode'[w] = "1"
                  /\ nDone' = nDone + 1
                  /\ unfinished' = unfinished - 1
                  /\ queue' = queue
          ]_vars
    /\ [][\A w \in WorkerIds : wpc[w] = "exited" => wpc'[w] = "exited"]_vars

\* The processing call failed with ParameterError at all four attempts;
\* the worker has put the tuple back, called task_done once and exited.
TransientEscalated ==
    \E w \in WorkerIds :
       /\ wpc[w] = "exited"
       /\ exitcode[w] = "1"
       /\ made[w] = MaxAttempt + 1
       /\ \A i \in 1..(MaxAttempt + 1) : sep_calls[w][i] = "ParameterError"
       /\ queue # <<>>
       /\ unfinished = 1
       /\ nDone = 1
(***************************************************************************)
(* Properties of the written output (SpecRedeliver).                       *)
(***************************************************************************)
\* C26: whichever worker writes a stem of a tuple, at whichever attempt and
\* delivery, the path written is the tuple's output path joined with the
\* directory of its file key and "<file name>_<stem in lower case>.wav";
\* two writes of the same stem of the same tuple go to the same path.
OutputKeyOfTupleAlone ==
    /\ \A r1 \in written, r2 \in written :
          (r1.item = r2.item /\ r1.stem = r2.stem) => r1.key = r2.key
    /\ \A r \in written :
          LET path == FilePath(r.item[3]) IN
          r.key = <<r.item[2]>> \o SubSeq(path, 1, Len(path) - 1)
                     \o <<path[Len(path)] \o "_" \o Lower(r.stem) \o ".wav">>

\* A tuple was requeued after a failed delivery and processed by the
\* respawned worker: the same stem has been written by both workers.
RedeliveredWritten ==
    \E r1 \in written, r2 \in written :
       /\ r1.item = r2.item
       /\ r1.stem = r2.stem
       /\ r1.worker # r2.worker
       /\ nPut > Cardinality(submitted)
       /\ FileOf(r1.item) \in processed

(***************************************************************************)
(* Properties of isolate_vocals (SpecIsolate).                             *)
(***************************************************************************)
\* Tags of the tuples that are on the queue, or with a worker that has not
\* called task_done for them.
UnfinishedTags ==
    {ModelOf(queue[i]) : i \in 1..Len(queue)}
       \cup {ModelOf(held[w]) : w \in {v \in WorkerIds : Holding(v)}}

\* Files of the first stage submitted so far.
Submitted1 == {i \in 1..NumFiles : Stage1File(i) \in submitted}

\* C32: the wanted tag is the second model, and tuples of the second stage
\* are submitted, only past the first stage's watch() and wait(); no tuple
\* tagged with the second model is on the queue while a tuple tagged with
\* the first is on the queue or not yet marked done.
StageOrder ==
    /\ ipc \in {"start", "gather1", "wait1"}
          => /\ wanted_model # SecondModel
             /\ Submitted2 = {}
             /\ SecondModel \notin UnfinishedTags
    /\ ipc \in {"submit2", "watch2", "wait2", "teardown"}
          => /\ wanted_model = SecondModel
             /\ FirstModel \notin UnfinishedTags
    /\ (\E i \in 1..Len(queue) : ModelOf(queue[i]) = SecondModel)
          => FirstModel \notin UnfinishedTags

\* An item of the second stage is on the queue; the first stage had an item
\* that failed once, was requeued, processed and marked done.
SecondStageQueued ==
    /\ ipc \in {"submit2", "watch2"}
    /\ \E i \in 1..Len(queue) : ModelOf(queue[i]) = SecondModel
    /\ Submitted1 # {}
    /\ \A i \in Submitted1 : Stage1File(i) \in processed
    /\ nPut > Cardinality(submitted)

\* C33: the total bound for the first stage is the number of conversion
\* jobs, each of which submits one item when it succeeds, so with every job
\* succeeded the items submitted are as many as the total; the total bound
\* for the second stage is the number of files, and as many items are
\* submitted before watch() is awaited.
StageTotals ==
    /\ ipc = "gather1"
          => /\ task.total = Len(jobs)
             /\ Cardinality(Submitted1)
                   = Cardinality({j \in JobIds : jobs[j] = "ok"})
    /\ ipc = "wait1"
          => /\ \A j \in JobIds : jobs[j] = "ok"
             /\ Cardinality(Submitted1) = task.total
    /\ ipc = "submit2"
          => /\ task.total = NumFiles
             /\ Cardinality(Submitted2) < task.total
    /\ ipc \in {"watch2", "wait2", "teardown"}
          => /\ task.total = NumFiles
             /\ Cardinality(Submitted2) = task.total

\* Both stages have reached their totals: the second watch() has returned
\* with every file counted, after a first stage with a conversion job for
\* every file.
BothStagesReachedTotal ==
    /\ ipc = "wait2"
    /\ watchpc = "returned"
    /\ task.completed = NumFiles
    /\ Cardinality(Submitted1) = NumFiles
    /\ Len(jobs) = NumFiles

\* C34: terminate() and join() are called only past the second stage's
\* wait(): whenever a handle has been told to stop or the caller is in
\* terminate() or join(), the unfinished counter is 0 and the queue empty.
TeardownAfterBarrier ==
    (\/ mpc \in {"teardown", "join", "joined"}
     \/ \E w \in WorkerIds : handle_run[w] # ValueObject
     \/ ipc = "teardown")
       => /\ ipc = "teardown"
          /\ wanted_model = SecondModel
          /\ unfinished = 0
          /\ queue = <<>>
          /\ \A w \in WorkerIds : Alive(w) => ~Holding(w)

\* join() has been called after terminate(), past both stages.
TornDown ==
    /\ mpc = "join"
    /\ \E w \in workers : handle_run[w] = PyFalse
    /\ \A i \in 1..NumFiles : Stage2File(i) \in processed

====
